---- MODULE Spec2Model ----
(***************************************************************************)
(* Model of the ghost-webhooks relay: the MySQL connection retry loop      *)
(* (src/mysql/mysqlClientProvider.ts), the server setup and the /hooks     *)
(* handler (src/index.ts) and the Postmark batch sender                    *)
(* (src/unnamed/part_000, email/postmarkBatchEmailSender.ts).              *)
(*                                                                         *)
(* JavaScript runs every piece of synchronous code to completion: an       *)
(* action of this model is the code between two suspension points (an      *)
(* await, a timer, a promise callback).                                    *)
(***************************************************************************)
EXTENDS Integers, Sequences, FiniteSets, TLC

\* ------------------------------------------------------------------ bounds
\* Number of invocations of attemptToConnectMySql in the connection harness.
NumInvocations == 2
\* Number of webhook requests the server handles concurrently.
NumRequests == 2
\* Largest number of rows the subscriber query returns.
MaxRecipients == 1200
\* Number of distinct subscriber addresses in the store.
NumAddresses == 1000

\* ------------------------------------------------------- program constants
MAX_CXN_RETRIES == 6
BATCH_SIZE == 500
minDelayMillis == 1000
maxDelayMillis == 60000

Invocations == 1 .. NumInvocations
Requests == 1 .. NumRequests
\* The invocation made by setup().
SetupInvocation == 1

VARIABLES
  CONNECTION_ATTEMPTS,  \* the module-level counter of mysqlClientProvider.ts
  conn,                 \* conn[k]: one invocation of attemptToConnectMySql
  harness,              \* TRUE when invocations are made by a test harness
  setupPc,              \* position of setup()
  isServerConfigValid,
  EMAIL_PROVIDER,       \* process.env.EMAIL_PROVIDER ("" when not set)
  batchEmailSender,     \* "none" or the provider the factory built
  db,                   \* the store: the rows the two queries return
  openConnections,      \* connections opened by the resolvers, not yet ended
  hpc,                  \* hpc[r]: position of the /hooks handler of request r
  usersToEmail,         \* usersToEmail[r]: the handler's local
  failedEmails,         \* failedEmails[r]: the array send() creates and returns
  submitted,            \* submitted[r]: the batches handed to the provider
  batchState,           \* batchState[r][b]: "inflight", "resolved", "rejected"
  status,               \* status[r]: 0 (none yet), 200 or 500
  trace,                \* trace[r]: the steps and logged errors of request r
  processExited,        \* the process died of an unhandled rejection
  clients,              \* the requests the content platform sends
  rowsReturned,         \* rowsReturned[r]: the publication query gave its rows
  responses,            \* responses[r][b]: the provider's answers to batch b
  caught,               \* caught[r]: the error the handler's catch block caught
  getConnectionCalls    \* getConnectionCalls[r]: getConnection() calls of request r

connVars == <<CONNECTION_ATTEMPTS, conn, harness>>
setupVars == <<setupPc, isServerConfigValid, EMAIL_PROVIDER, batchEmailSender>>
reqVars == <<db, openConnections, hpc, usersToEmail, failedEmails, submitted,
             batchState, status, trace, processExited, clients, rowsReturned, responses,
             caught, getConnectionCalls>>

\* ------------------------------------------------------- helper operators
Min(a, b) == IF a < b THEN a ELSE b

RECURSIVE Pow2(_)
Pow2(n) == IF n = 0 THEN 1 ELSE 2 * Pow2(n - 1)

RECURSIVE SumSeq(_)
SumSeq(s) == IF s = <<>> THEN 0 ELSE Head(s) + SumSeq(Tail(s))

\* ------------------------------------------------- connection retry loop
\* getRetryDelay(attempts), in milliseconds.
getRetryDelayFromZero(attempts) ==
  IF maxDelayMillis < minDelayMillis * Pow2(attempts - 1)
    THEN maxDelayMillis
    ELSE minDelayMillis * Pow2(attempts - 1)

getRetryDelayLinear(attempts) ==
  IF maxDelayMillis < minDelayMillis * 2 * attempts
    THEN maxDelayMillis
    ELSE minDelayMillis * 2 * attempts

getRetryDelayUnclamped(attempts) == minDelayMillis * Pow2(attempts)

getRetryDelay(attempts) ==
  IF maxDelayMillis < minDelayMillis * Pow2(attempts)
    THEN maxDelayMillis
    ELSE minDelayMillis * Pow2(attempts)

\* The condition of the while loop.
LoopCondStrict(attempts) == attempts < MAX_CXN_RETRIES

LoopCond(attempts) == attempts <= MAX_CXN_RETRIES

\* An invocation that has not been made yet.
NoInvocation ==
  [pc |-> "idle", log |-> <<>>, sleeps |-> <<>>, startedAt |-> 0]

\* The loop head, reached on entry and after each sleep: either the next
\* getConnection() is issued (and awaited) or the loop ends and the
\* invocation throws.
LoopHead(c, attempts) ==
  IF LoopCond(attempts)
    THEN [c EXCEPT !.pc = "connecting"]
    ELSE [c EXCEPT !.pc = "threw"]

\* attemptToConnectMySql() is called: runs up to the first await.
Invoke(k) ==
  /\ conn[k].pc = "idle"
  /\ conn' = [conn EXCEPT ![k] =
       LoopHead([NoInvocation EXCEPT !.startedAt = CONNECTION_ATTEMPTS],
                CONNECTION_ATTEMPTS)]
  /\ UNCHANGED CONNECTION_ATTEMPTS

\* A call by a caller other than setup() (the connection harness).
HarnessInvoke(k) ==
  /\ harness
  /\ Invoke(k)
  /\ UNCHANGED <<harness, setupVars, reqVars>>

\* getConnection() resolves: "Connected to MySQL", return true.
ConnectOk(k) ==
  /\ conn[k].pc = "connecting"
  /\ conn' = [conn EXCEPT ![k].pc = "returned",
                          ![k].log = Append(@, TRUE)]
  /\ UNCHANGED <<CONNECTION_ATTEMPTS, harness, setupVars, reqVars>>

\* getConnection() rejects: the catch block computes the delay from the
\* shared counter and starts the timer.
ConnectFail(k) ==
  /\ conn[k].pc = "connecting"
  /\ conn' = [conn EXCEPT ![k].pc = "sleeping",
                          ![k].log = Append(@, FALSE),
                          ![k].sleeps = Append(@, getRetryDelay(CONNECTION_ATTEMPTS))]
  /\ UNCHANGED <<CONNECTION_ATTEMPTS, harness, setupVars, reqVars>>

\* The timer fires: CONNECTION_ATTEMPTS++ and back to the loop head.
Wake(k) ==
  /\ conn[k].pc = "sleeping"
  /\ CONNECTION_ATTEMPTS' = CONNECTION_ATTEMPTS + 1
  /\ conn' = [conn EXCEPT ![k] = LoopHead(@, CONNECTION_ATTEMPTS + 1)]
  /\ UNCHANGED <<harness, setupVars, reqVars>>

\* ------------------------------------------------------------------ setup
KnownProviders == {"postmark"}
ProviderSettings == {"", "postmark", "sendpigeon"}

\* BatchEmailSenderFactory.createBatchEmailSender: "threw" for a provider
\* name it does not know.
createBatchEmailSender(provider) ==
  IF provider \in KnownProviders THEN provider ELSE "threw"

\* The catch block of setup(): the flag after a configuration error.
CatchKeepsFlag(valid) == valid

CatchConfigError(valid) == FALSE

\* setup() is called at module load: new MysqlClientProvider() and the call
\* of attemptToConnectMySql(), up to its first await.
SetupStart ==
  /\ ~harness
  /\ setupPc = "start"
  /\ Invoke(SetupInvocation)
  /\ setupPc' = "awaitConnect"
  /\ UNCHANGED <<harness, isServerConfigValid, EMAIL_PROVIDER, batchEmailSender, reqVars>>

\* attemptToConnectMySql() has returned true or thrown: the rest of the try
\* block, the catch block and the if that starts the server.
SetupResume ==
  /\ setupPc = "awaitConnect"
  /\ conn[SetupInvocation].pc \in {"returned", "threw"}
  /\ LET connected == conn[SetupInvocation].pc = "returned"
         afterConnect == IF connected THEN TRUE ELSE isServerConfigValid
         sender == IF connected /\ EMAIL_PROVIDER # ""
                     THEN createBatchEmailSender(EMAIL_PROVIDER)
                     ELSE "threw"
         valid == IF sender = "threw"
                    THEN CatchConfigError(afterConnect)
                    ELSE afterConnect
     IN /\ isServerConfigValid' = valid
        /\ batchEmailSender' = IF sender = "threw" THEN "none" ELSE sender
        /\ setupPc' = IF valid THEN "listening" ELSE "failed"
  /\ UNCHANGED <<connVars, EMAIL_PROVIDER, reqVars>>


\* ------------------------------------------------------------- the store
\* The address of the i-th member row. Subscribers are modelled by their
\* email address: name and uuid only travel into the template model.
Email(i) == ((i - 1) % NumAddresses) + 1

MkUsers(n) == [i \in 1 .. n |-> Email(i)]

\* Numbers of rows the subscriber query returns in the stores explored.
RecipientCounts == {0, 1, BATCH_SIZE, BATCH_SIZE + 1, MaxRecipients}

\* A store: the number of member rows of the post's newsletter (row i has
\* the address Email(i)), and the number of rows of the newsletter query
\* (LIMIT 1: none or one).
Stores ==
  {[members |-> n, newsletters |-> m] : n \in RecipientCounts, m \in 0 .. 1}

\* The rows EMAILS_QUERY returns, mapped to users by rows.forEach.
MemberRows == MkUsers(db.members)

\* ------------------------------------------------------------ batch sender
\* Array.prototype.slice(start, end) on 0-based indices, end exclusive and
\* clamped to the length.
SliceDropsLast(s, start, end) == SubSeq(s, start + 1, Min(end, Len(s)) - 1)

Slice(s, start, end) == SubSeq(s, start + 1, Min(end, Len(s)))

\* Math.ceil(n / BATCH_SIZE)
BatchCountFloor(n) == n \div BATCH_SIZE

BatchCountPlusOne(n) == (n \div BATCH_SIZE) + 1

BatchCount(n) ==
  IF n % BATCH_SIZE = 0 THEN n \div BATCH_SIZE ELSE (n \div BATCH_SIZE) + 1

\* The condition of the for loop of send().
SendLoopStopsEarly(i, batches) == i < batches /\ i < 1

SendLoopCond(i, batches) == i < batches

\* The for loop of send(): the batches handed to sendEmailBatchWithTemplates,
\* in order; emailBatch[j].To is batch[j].email.
RECURSIVE SubmitLoop(_, _, _)
SubmitLoop(i, batches, userData) ==
  IF SendLoopCond(i, batches)
    THEN <<Slice(userData, i * BATCH_SIZE, (i + 1) * BATCH_SIZE)>>
           \o SubmitLoop(i + 1, batches, userData)
    ELSE <<>>

\* The result of an accepted message.
Accepted == [ErrorCode |-> 0, Message |-> "OK"]

\* Per-recipient results a provider reports for a recipient it did not accept.
FailureKinds ==
  { [ErrorCode |-> 406, Message |-> "Inactive recipient"],
    [ErrorCode |-> 300, Message |-> "OK"],
    [ErrorCode |-> 0, Message |-> "Queued"] }

\* The response to a batch: one BatchResponse per message, in order; the
\* messages at the positions in bad are reported with the result kind.
Response(batch, bad, kind) ==
  [j \in 1 .. Len(batch) |->
     IF j \in bad
       THEN [To |-> batch[j], ErrorCode |-> kind.ErrorCode, Message |-> kind.Message]
       ELSE [To |-> batch[j], ErrorCode |-> Accepted.ErrorCode,
             Message |-> Accepted.Message]]

\* The sets of positions of a batch that the explored providers report as
\* not accepted: none, or the first.
BadChoices(batch) == {{}, {1}}

\* The test of the then-callback.
IsFailureByCodeOnly(result) == result.ErrorCode # 0

IsFailure(result) == result.Message # "OK" \/ result.ErrorCode # 0

\* response.forEach(...): the addresses pushed to failedEmails.
PushEveryTo(failed, response) ==
  failed \o [j \in 1 .. Len(response) |-> response[j].To]

PushFailures(failed, response) ==
  LET failures == SelectSeq(response, IsFailure)
  IN failed \o [j \in 1 .. Len(failures) |-> failures[j].To]

\* The responses that have arrived for a batch just submitted: none.
NoResponse == <<>>

\* The array the then-callbacks of the send() call of request r push to and
\* that this call returns: the one this call created (let failedEmails = []).
SharedFailureList(r) == CHOOSE q \in Requests : \A p \in Requests : q <= p

FailureListOf(r) == r

\* ------------------------------------------------------- the /hooks handler
\* Synchronous code of some handler is on the stack: no callback, timer or
\* continuation runs until it has finished.
Running == \E r \in Requests : hpc[r] \in {"dispatch", "sent"}

\* The event loop can run a callback or a continuation.
CanRun == ~processExited /\ ~Running

\* The catch block of a resolver logs the error ("subscribersError",
\* "publicationError") and rethrows it; the catch block of the handler then
\* answers res.sendStatus(500).
HandlerCatchSilent(r, event, error) ==
  /\ hpc' = [hpc EXCEPT ![r] = "failed"]
  /\ trace' = [trace EXCEPT ![r] = Append(@, event)]
  /\ caught' = [caught EXCEPT ![r] = error]
  /\ UNCHANGED <<status, getConnectionCalls>>

HandlerCatch(r, event, error) ==
  /\ hpc' = [hpc EXCEPT ![r] = "responded"]
  /\ status' = [status EXCEPT ![r] = 500]
  /\ trace' = [trace EXCEPT ![r] = @ \o <<event, "respond">>]
  /\ caught' = [caught EXCEPT ![r] = error]
  /\ UNCHANGED getConnectionCalls

\* What the catch blocks of the two resolvers do after logging.
EmailsCatchRethrows == TRUE

NewsletterCatchSwallows == FALSE

NewsletterCatchRethrows == TRUE

\* A webhook arrives: the handler runs up to the first await, inside
\* getEmailsByPostId (await this.getConnection()).
Receive(r) ==
  /\ CanRun
  /\ setupPc = "listening"
  /\ r \in clients
  /\ hpc[r] = "idle"
  /\ hpc' = [hpc EXCEPT ![r] = "emails.connect"]
  /\ trace' = [trace EXCEPT ![r] = Append(@, "resolveSubscribers")]
  /\ getConnectionCalls' = [getConnectionCalls EXCEPT ![r] = @ + 1]
  /\ UNCHANGED <<connVars, setupVars, db, openConnections, usersToEmail,
                 failedEmails, submitted, batchState, status, processExited,
                 clients, rowsReturned, responses, caught>>

\* The handler goes on after getEmailsByPostId: it calls
\* getNewsletterNameByPostId, which runs up to await this.getConnection().
ToNewsletter(r, users, logged) ==
  /\ usersToEmail' = [usersToEmail EXCEPT ![r] = users]
  /\ hpc' = [hpc EXCEPT ![r] = "newsletter.connect"]
  /\ trace' = [trace EXCEPT ![r] = @ \o logged \o <<"resolvePublication">>]
  /\ getConnectionCalls' = [getConnectionCalls EXCEPT ![r] = @ + 1]
  /\ UNCHANGED <<status, caught>>

\* The handler goes on after getNewsletterNameByPostId: it builds
\* newsletterData and is about to call batchEmailSender.send.
ToDispatch(r, logged) ==
  /\ hpc' = [hpc EXCEPT ![r] = "dispatch"]
  /\ trace' = [trace EXCEPT ![r] = @ \o logged]
  /\ UNCHANGED <<status, caught, getConnectionCalls>>

\* An error inside the try block of getEmailsByPostId: a rejection of
\* getConnection() or of connection.execute ("MysqlError").
EmailsErrorRetries(r) ==
  /\ hpc' = [hpc EXCEPT ![r] = "emails.connect"]
  /\ trace' = [trace EXCEPT ![r] = Append(@, "subscribersError")]
  /\ getConnectionCalls' = [getConnectionCalls EXCEPT ![r] = @ + 1]
  /\ UNCHANGED <<usersToEmail, status, caught>>

EmailsError(r) ==
  IF EmailsCatchRethrows
    THEN HandlerCatch(r, "subscribersError", "MysqlError") /\ UNCHANGED usersToEmail
    ELSE ToNewsletter(r, <<>>, <<"subscribersError">>)

\* An error inside the try block of getNewsletterNameByPostId: a rejection
\* of getConnection() or of connection.execute ("MysqlError"), or what
\* reading rows[0].name threw.
NewsletterError(r, error) ==
  IF NewsletterCatchRethrows
    THEN HandlerCatch(r, "publicationError", error)
    ELSE ToDispatch(r, <<"publicationError">>)

\* getEmailsByPostId: the connection is opened, the query is issued.
EmailsConnected(r) ==
  /\ CanRun
  /\ hpc[r] = "emails.connect"
  /\ hpc' = [hpc EXCEPT ![r] = "emails.query"]
  /\ openConnections' = openConnections + 1
  /\ UNCHANGED <<connVars, setupVars, db, usersToEmail, failedEmails, submitted,
                 batchState, status, trace, processExited, clients, rowsReturned, responses,
                 caught, getConnectionCalls>>

\* getEmailsByPostId: getConnection() rejects.
EmailsConnectFails(r) ==
  /\ CanRun
  /\ hpc[r] = "emails.connect"
  /\ EmailsError(r)
  /\ UNCHANGED <<connVars, setupVars, db, openConnections, failedEmails,
                 submitted, batchState, processExited, clients, rowsReturned, responses>>

\* getEmailsByPostId: the query returns its rows; they are mapped to users,
\* the connection is ended and the users are returned.
EmailsQueryOk(r) ==
  /\ CanRun
  /\ hpc[r] = "emails.query"
  /\ openConnections' = openConnections - 1
  /\ ToNewsletter(r, MemberRows, <<>>)
  /\ UNCHANGED <<connVars, setupVars, db, failedEmails, submitted, batchState,
                 processExited, clients, rowsReturned, responses>>

\* getEmailsByPostId: connection.execute rejects; the connection stays open.
EmailsQueryFails(r) ==
  /\ CanRun
  /\ hpc[r] = "emails.query"
  /\ EmailsError(r)
  /\ UNCHANGED <<connVars, setupVars, db, openConnections, failedEmails,
                 submitted, batchState, processExited, clients, rowsReturned, responses>>

\* getNewsletterNameByPostId: the connection is opened, the query is issued.
NewsletterConnected(r) ==
  /\ CanRun
  /\ hpc[r] = "newsletter.connect"
  /\ hpc' = [hpc EXCEPT ![r] = "newsletter.query"]
  /\ openConnections' = openConnections + 1
  /\ UNCHANGED <<connVars, setupVars, db, usersToEmail, failedEmails, submitted,
                 batchState, status, trace, processExited, clients, rowsReturned, responses,
                 caught, getConnectionCalls>>

\* getNewsletterNameByPostId: getConnection() rejects.
NewsletterConnectFails(r) ==
  /\ CanRun
  /\ hpc[r] = "newsletter.connect"
  /\ NewsletterError(r, "MysqlError")
  /\ UNCHANGED <<connVars, setupVars, db, openConnections, usersToEmail,
                 failedEmails, submitted, batchState, processExited, clients, rowsReturned,
                 responses>>

\* What rows[0].name throws when the query returned no row: rows[0] is
\* undefined, and reading a property of undefined is a TypeError.
EmptyResultError == "TypeError"

\* getNewsletterNameByPostId: the query returns its rows. With no row,
\* rows[0].name throws a TypeError inside the try block. The connection is
\* never ended.
NewsletterQueryOk(r) ==
  /\ CanRun
  /\ hpc[r] = "newsletter.query"
  /\ rowsReturned' = [rowsReturned EXCEPT ![r] = TRUE]
  /\ IF db.newsletters = 0
       THEN NewsletterError(r, EmptyResultError)
       ELSE ToDispatch(r, <<>>)
  /\ UNCHANGED <<connVars, setupVars, db, openConnections, usersToEmail,
                 failedEmails, submitted, batchState, processExited, clients,
                 responses>>

\* getNewsletterNameByPostId: connection.execute rejects.
NewsletterQueryFails(r) ==
  /\ CanRun
  /\ hpc[r] = "newsletter.query"
  /\ NewsletterError(r, "MysqlError")
  /\ UNCHANGED <<connVars, setupVars, db, openConnections, usersToEmail,
                 failedEmails, submitted, batchState, processExited, clients, rowsReturned,
                 responses>>

\* batchEmailSender.send(usersToEmail, newsletterData): every batch is
\* handed to the provider, a then-callback is attached to each promise, and
\* failedEmails is returned.
Send(r) ==
  /\ ~processExited
  /\ hpc[r] = "dispatch"
  /\ LET batches == BatchCount(Len(usersToEmail[r]))
         calls == SubmitLoop(0, batches, usersToEmail[r])
     IN /\ submitted' = [submitted EXCEPT ![r] = calls]
        /\ batchState' = [batchState EXCEPT ![r] = [b \in 1 .. Len(calls) |-> "inflight"]]
        /\ responses' = [responses EXCEPT ![r] = [b \in 1 .. Len(calls) |-> NoResponse]]
  /\ failedEmails' = [failedEmails EXCEPT ![FailureListOf(r)] = <<>>]
  /\ hpc' = [hpc EXCEPT ![r] = "sent"]
  /\ trace' = [trace EXCEPT ![r] = Append(@, "dispatch")]
  /\ UNCHANGED <<connVars, setupVars, db, openConnections, usersToEmail, status,
                 processExited, clients, rowsReturned, caught, getConnectionCalls>>

\* The handler after send() has returned: the length test on the returned
\* array, then res.sendStatus(200), or the throw and res.sendStatus(500).
Respond(r) ==
  /\ ~processExited
  /\ hpc[r] = "sent"
  /\ hpc' = [hpc EXCEPT ![r] = "responded"]
  /\ LET failureEmails == failedEmails[FailureListOf(r)]
     IN /\ status' = [status EXCEPT ![r] = IF Len(failureEmails) > 0 THEN 500 ELSE 200]
        /\ caught' = [caught EXCEPT ![r] = IF Len(failureEmails) > 0 THEN "Error" ELSE @]
  /\ trace' = [trace EXCEPT ![r] = Append(@, "respond")]
  /\ UNCHANGED <<connVars, setupVars, db, openConnections, usersToEmail,
                 failedEmails, submitted, batchState, processExited, clients, rowsReturned,
                 responses, getConnectionCalls>>

\* The promise of batch b resolves: the then-callback pushes the address of
\* every result that is not a success.
BatchResolved(r, b) ==
  /\ CanRun
  /\ b \in DOMAIN batchState[r]
  /\ batchState[r][b] = "inflight"
  /\ \E bad \in BadChoices(submitted[r][b]) :
     \E kind \in (IF bad = {} THEN {Accepted} ELSE FailureKinds) :
       /\ failedEmails' = [failedEmails EXCEPT ![FailureListOf(r)] =
            PushFailures(@, Response(submitted[r][b], bad, kind))]
       /\ responses' = [responses EXCEPT ![r][b] = <<[bad |-> bad, kind |-> kind]>>]
  /\ batchState' = [batchState EXCEPT ![r][b] = "resolved"]
  /\ UNCHANGED <<connVars, setupVars, db, openConnections, hpc, usersToEmail,
                 submitted, status, trace, processExited, clients, rowsReturned, caught,
                 getConnectionCalls>>

\* The promise of batch b rejects. No rejection handler is attached: the
\* rejection is unhandled, which the runtime reports and, depending on its
\* unhandled-rejections mode, ends the process for.
BatchRejected(r, b) ==
  /\ CanRun
  /\ b \in DOMAIN batchState[r]
  /\ batchState[r][b] = "inflight"
  /\ batchState' = [batchState EXCEPT ![r][b] = "rejected"]
  /\ processExited' \in BOOLEAN
  /\ UNCHANGED <<connVars, setupVars, db, openConnections, hpc, usersToEmail,
                 failedEmails, submitted, status, trace, clients, rowsReturned, responses,
                 caught, getConnectionCalls>>

\* ---------------------------------------------------------- specifications
vars == <<connVars, setupVars, reqVars>>

\* The shape of the state.
TypeOK ==
  /\ CONNECTION_ATTEMPTS \in Nat \ {0}
  /\ \A k \in Invocations :
       /\ conn[k].pc \in {"idle", "connecting", "sleeping", "returned", "threw"}
       /\ \A i \in DOMAIN conn[k].log : conn[k].log[i] \in BOOLEAN
       /\ \A i \in DOMAIN conn[k].sleeps : conn[k].sleeps[i] \in Nat
  /\ harness \in BOOLEAN
  /\ setupPc \in {"start", "awaitConnect", "listening", "failed"}
  /\ isServerConfigValid \in BOOLEAN
  /\ EMAIL_PROVIDER \in ProviderSettings
  /\ batchEmailSender \in KnownProviders \cup {"none"}
  /\ db.members \in Nat /\ db.newsletters \in 0 .. 1
  /\ openConnections \in Nat
  /\ processExited \in BOOLEAN
  /\ clients \subseteq Requests
  /\ \A r \in Requests :
       /\ hpc[r] \in {"idle", "emails.connect", "emails.query", "newsletter.connect",
                      "newsletter.query", "dispatch", "sent", "responded"}
       /\ status[r] \in {0, 200, 500}
       /\ caught[r] \in {"none", "MysqlError", "TypeError", "Error"}
       /\ getConnectionCalls[r] \in Nat
       /\ rowsReturned[r] \in BOOLEAN
       /\ DOMAIN batchState[r] = DOMAIN submitted[r]
       /\ DOMAIN responses[r] = DOMAIN submitted[r]
       /\ \A b \in DOMAIN batchState[r] :
            batchState[r][b] \in {"inflight", "resolved", "rejected"}

ConnInit ==
  /\ CONNECTION_ATTEMPTS = 1
  /\ conn = [k \in Invocations |-> NoInvocation]

ReqInit ==
  /\ openConnections = 0
  /\ hpc = [r \in Requests |-> "idle"]
  /\ usersToEmail = [r \in Requests |-> <<>>]
  /\ failedEmails = [r \in Requests |-> <<>>]
  /\ submitted = [r \in Requests |-> <<>>]
  /\ batchState = [r \in Requests |-> <<>>]
  /\ status = [r \in Requests |-> 0]
  /\ trace = [r \in Requests |-> <<>>]
  /\ processExited = FALSE
  /\ responses = [r \in Requests |-> <<>>]
  /\ caught = [r \in Requests |-> "none"]
  /\ rowsReturned = [r \in Requests |-> FALSE]
  /\ getConnectionCalls = [r \in Requests |-> 0]

\* One webhook request.
SingleClient == {r \in Requests : \A q \in Requests : r <= q}

\* The process at module load, before setup() runs, with the environment
\* and the store it finds; the content platform will send one webhook.
Init ==
  /\ ConnInit
  /\ harness = FALSE
  /\ setupPc = "start"
  /\ isServerConfigValid = FALSE
  /\ EMAIL_PROVIDER \in ProviderSettings
  /\ batchEmailSender = "none"
  /\ db \in Stores
  /\ clients = SingleClient
  /\ ReqInit

Next ==
  \/ SetupStart
  \/ \E k \in Invocations : ConnectOk(k)
  \/ \E k \in Invocations : ConnectFail(k)
  \/ \E k \in Invocations : Wake(k)
  \/ SetupResume
  \/ \E r \in Requests : Receive(r)
  \/ \E r \in Requests : EmailsConnected(r)
  \/ \E r \in Requests : EmailsConnectFails(r)
  \/ \E r \in Requests : EmailsQueryOk(r)
  \/ \E r \in Requests : EmailsQueryFails(r)
  \/ \E r \in Requests : NewsletterConnected(r)
  \/ \E r \in Requests : NewsletterConnectFails(r)
  \/ \E r \in Requests : NewsletterQueryOk(r)
  \/ \E r \in Requests : NewsletterQueryFails(r)
  \/ \E r \in Requests : Send(r)
  \/ \E r \in Requests : Respond(r)
  \/ \E r \in Requests : \E b \in 1 .. BatchCount(MaxRecipients) : BatchResolved(r, b)
  \/ \E r \in Requests : \E b \in 1 .. BatchCount(MaxRecipients) : BatchRejected(r, b)

Spec == Init /\ [][Next]_vars

\* The process from module load to the end of setup(), with fairness: the
\* event loop runs every timer that has expired and every continuation
\* whose promise has settled, and every getConnection() settles.
StartupNext ==
  \/ SetupStart
  \/ \E k \in Invocations : ConnectOk(k)
  \/ \E k \in Invocations : ConnectFail(k)
  \/ \E k \in Invocations : Wake(k)
  \/ SetupResume

StartupSpec == Init /\ [][StartupNext]_vars /\ WF_vars(StartupNext)

\* The connection harness: attemptToConnectMySql() called NumInvocations
\* times, in sequence or overlapping, with no server around it.
HarnessInit ==
  /\ ConnInit
  /\ harness = TRUE
  /\ setupPc = "start"
  /\ isServerConfigValid = FALSE
  /\ EMAIL_PROVIDER = ""
  /\ batchEmailSender = "none"
  /\ db = [members |-> 0, newsletters |-> 0]
  /\ clients = {}
  /\ ReqInit

HarnessNext ==
  \/ \E k \in Invocations : HarnessInvoke(k)
  \/ \E k \in Invocations : ConnectOk(k)
  \/ \E k \in Invocations : ConnectFail(k)
  \/ \E k \in Invocations : Wake(k)

HarnessSpec == HarnessInit /\ [][HarnessNext]_vars

\* Stores of posts with few subscribers.
SmallStores ==
  {[members |-> n, newsletters |-> m] : n \in {0, 2}, m \in 0 .. 1}

\* The server once setup() has connected at the first attempt, built the
\* sender and called app.listen; the content platform will send
\* NumRequests webhooks, which the server handles concurrently.
ConcurrentInit ==
  /\ CONNECTION_ATTEMPTS = 1
  /\ conn = [k \in Invocations |->
       IF k = SetupInvocation
         THEN [pc |-> "returned", log |-> <<TRUE>>, sleeps |-> <<>>, startedAt |-> 1]
         ELSE NoInvocation]
  /\ harness = FALSE
  /\ setupPc = "listening"
  /\ isServerConfigValid = TRUE
  /\ EMAIL_PROVIDER = "postmark"
  /\ batchEmailSender = "postmark"
  /\ db \in SmallStores
  /\ clients = Requests
  /\ ReqInit

ConcurrentNext ==
  \/ \E r \in Requests : Receive(r)
  \/ \E r \in Requests : EmailsConnected(r)
  \/ \E r \in Requests : EmailsConnectFails(r)
  \/ \E r \in Requests : EmailsQueryOk(r)
  \/ \E r \in Requests : EmailsQueryFails(r)
  \/ \E r \in Requests : NewsletterConnected(r)
  \/ \E r \in Requests : NewsletterConnectFails(r)
  \/ \E r \in Requests : NewsletterQueryOk(r)
  \/ \E r \in Requests : NewsletterQueryFails(r)
  \/ \E r \in Requests : Send(r)
  \/ \E r \in Requests : Respond(r)
  \/ \E r \in Requests : \E b \in 1 .. BatchCount(MaxRecipients) : BatchResolved(r, b)
  \/ \E r \in Requests : \E b \in 1 .. BatchCount(MaxRecipients) : BatchRejected(r, b)

\* Fairness: every request sent arrives, every getConnection(), query and
\* batch promise settles, and the event loop runs every continuation that
\* is ready.
ConcurrentSpec ==
  ConcurrentInit /\ [][ConcurrentNext]_vars /\ WF_vars(ConcurrentNext)

\* ------------------------------------------------------------------ claims
\* The handler of request r got past both resolvers and called send().
Dispatched(r) ==
  \E i \in DOMAIN trace[r] : trace[r][i] = "dispatch"

\* A resolver of request r logged an error.
ResolverFailed(r) ==
  \E i \in DOMAIN trace[r] : trace[r][i] \in {"subscribersError", "publicationError"}

InFlight(r) == {b \in DOMAIN batchState[r] : batchState[r][b] = "inflight"}

\* The number of batches a list of n recipients needs: the least k with
\* k * BATCH_SIZE >= n.
BatchesNeeded(n) ==
  CHOOSE k \in 0 .. n : k * BATCH_SIZE >= n /\ (k = 0 \/ (k - 1) * BATCH_SIZE < n)

RECURSIVE Flatten(_)
Flatten(ss) == IF ss = <<>> THEN <<>> ELSE Head(ss) \o Flatten(Tail(ss))

IsPrefix(s, t) == Len(s) <= Len(t) /\ s = SubSeq(t, 1, Len(s))

\* C1: at the moment send() returns its list to the handler, no batch
\* response is still in flight (every batch's outcome has been observed).
C1_NoBatchInFlightAtReturn ==
  \A r \in Requests : hpc[r] = "sent" => InFlight(r) = {}

\* C2: a request whose two resolvers succeeded is answered 200 if and only
\* if no recipient's send result was a failure; stated once every batch
\* response of the request has been processed.
C2_SuccessIffNoRecipientFailed ==
  \A r \in Requests :
    (hpc[r] = "responded" /\ Dispatched(r) /\ InFlight(r) = {}
       /\ \A b \in DOMAIN batchState[r] : batchState[r][b] = "resolved")
    => (status[r] = 200 <=> failedEmails[r] = <<>>)

\* C3: send() hands the provider exactly ceil(n / BATCH_SIZE) batches, each
\* of 1 to BATCH_SIZE recipients, and the batches concatenated in submission
\* order are the input list.
C3_BatchesPartitionRecipients ==
  \A r \in Requests :
    Dispatched(r) =>
      /\ Len(submitted[r]) = BatchesNeeded(Len(usersToEmail[r]))
      /\ \A b \in DOMAIN submitted[r] :
           Len(submitted[r][b]) >= 1 /\ Len(submitted[r][b]) <= BATCH_SIZE
      /\ Flatten(submitted[r]) = usersToEmail[r]

\* A list of MaxRecipients recipients has been sent in several batches, the
\* last one shorter than BATCH_SIZE.
C3_Witness ==
  \E r \in Requests :
    /\ Dispatched(r)
    /\ Len(usersToEmail[r]) = MaxRecipients
    /\ Len(submitted[r]) >= 2
    /\ Len(submitted[r][Len(submitted[r])]) < BATCH_SIZE

\* The provider rejected the call of batch b of request r, or reported a
\* failed recipient in some response of request r.
SomeBatchFailed(r) ==
  \/ \E b \in DOMAIN batchState[r] : batchState[r][b] = "rejected"
  \/ failedEmails[r] # <<>>

\* C4: whichever batches fail (a rejected call, or recipients reported as
\* failed), every batch of the list was submitted and send() returned its
\* list to the handler, which went on to respond without catching an error.
C4_FailedBatchBlocksNothing ==
  \A r \in Requests :
    SomeBatchFailed(r) =>
      /\ Len(submitted[r]) = BatchesNeeded(Len(usersToEmail[r]))
      /\ DOMAIN batchState[r] = DOMAIN submitted[r]
      /\ trace[r] = <<"resolveSubscribers", "resolvePublication", "dispatch", "respond">>

\* Of three batches the second was rejected and the first reported a failed
\* recipient, with the third still in flight.
C4_Witness ==
  \E r \in Requests :
    /\ Len(submitted[r]) = 3
    /\ batchState[r][2] = "rejected"
    /\ batchState[r][1] = "resolved"
    /\ batchState[r][3] = "inflight"
    /\ failedEmails[r] # <<>>

\* The invocation of attemptToConnectMySql() made by setup().
Startup == conn[SetupInvocation]

\* Every getConnection() of invocation c so far has failed.
AllFailed(c) == \A i \in DOMAIN c.log : ~c.log[i]

FailsThriceThenConnects == <<FALSE, FALSE, FALSE, TRUE>>

\* C5 as stated: with a connection that fails three times and then
\* succeeds, the startup connect returns on the fourth attempt having slept
\* 1 s, 2 s and 4 s.
C5_SleepsOneTwoFour ==
  Startup.log = FailsThriceThenConnects =>
    Startup.pc = "returned" /\ Startup.sleeps = <<1000, 2000, 4000>>

\* C5 as amended: with a connection that fails three times and then
\* succeeds, the startup connect returns on the fourth attempt having slept
\* 2 s, 4 s and 8 s, in that order.
C5_SleepsTwoFourEight ==
  /\ Startup.log = FailsThriceThenConnects =>
       Startup.pc = "returned" /\ Startup.sleeps = <<2000, 4000, 8000>>
  /\ (IsPrefix(Startup.log, FailsThriceThenConnects) /\ Startup.log # FailsThriceThenConnects) =>
       Startup.pc \in {"idle", "connecting", "sleeping"}

C5_Witness ==
  /\ Startup.log = FailsThriceThenConnects
  /\ Startup.pc = "returned"
  /\ setupPc = "listening"

\* C6 (safety part): while every attempt of the startup connect has failed,
\* it has made at most MAX_CXN_RETRIES attempts, and it throws only after
\* exactly that many; it never returns success.
C6_AtMostSixAttempts ==
  AllFailed(Startup) =>
    /\ Len(Startup.log) <= MAX_CXN_RETRIES
    /\ Startup.pc # "returned"
    /\ Startup.pc = "threw" => Len(Startup.log) = MAX_CXN_RETRIES
    /\ (Startup.pc = "connecting" => Len(Startup.log) < MAX_CXN_RETRIES)

\* C6: with a connection that always fails the startup connect terminates:
\* it makes exactly 6 attempts, never a 7th, and then throws.
C6_ExhaustsAndThrows ==
  /\ []C6_AtMostSixAttempts
  /\ <>(~AllFailed(Startup) \/ Startup.pc = "threw")

C6_Witness ==
  /\ Startup.pc = "threw"
  /\ Len(Startup.log) = 6
  /\ AllFailed(Startup)
  /\ setupPc = "failed"

\* C7 as stated: the startup connect that exhausts its attempts has slept
\* 63 s in total, each delay at most 60 s.
C7_TotalSleep63s ==
  Startup.pc = "threw" =>
    /\ SumSeq(Startup.sleeps) = 63000
    /\ \A i \in DOMAIN Startup.sleeps : Startup.sleeps[i] <= 60000

\* C7 as amended: the startup connect that exhausts its attempts has slept
\* 2+4+8+16+32+60 = 122 s in total, each delay at most 60 s (the sixth,
\* 64 s unclamped, is clamped to 60 s).
C7_TotalSleep122s ==
  Startup.pc = "threw" =>
    /\ Startup.sleeps = <<2000, 4000, 8000, 16000, 32000, 60000>>
    /\ SumSeq(Startup.sleeps) = 122000
    /\ \A i \in DOMAIN Startup.sleeps : Startup.sleeps[i] <= 60000

C7_Witness == Startup.pc = "threw" /\ Len(Startup.sleeps) = 6

\* C8: an invocation of the connect operation is not affected by other
\* invocations: it throws only after its own 6 attempts, and its i-th delay
\* is the i-th delay of the backoff sequence.
C8_InvocationsIndependent ==
  \A k \in Invocations :
    /\ conn[k].pc = "threw" => Len(conn[k].log) = MAX_CXN_RETRIES
    /\ \A i \in DOMAIN conn[k].sleeps : conn[k].sleeps[i] = getRetryDelay(i)

\* C9: a webhook request is handled only if the startup connect returned
\* success and the factory built a sender; when the connect throws or the
\* provider setting is missing or unknown, the server never listens and no
\* request is handled.
C9_ServesOnlyWhenConfigured ==
  /\ (setupPc = "listening" \/ \E r \in Requests : hpc[r] # "idle") =>
       /\ Startup.pc = "returned"
       /\ batchEmailSender \in KnownProviders
       /\ isServerConfigValid
  /\ (Startup.pc = "threw" \/ EMAIL_PROVIDER \notin KnownProviders) =>
       /\ setupPc # "listening"
       /\ \A r \in Requests : hpc[r] = "idle"

\* A request has been answered by a configured server.
C9_Witness ==
  /\ setupPc = "listening"
  /\ \E r \in Requests : hpc[r] = "responded"

\* setup() has ended without listening although the connect succeeded.
C9_WitnessRefused ==
  /\ setupPc = "failed"
  /\ Startup.pc = "returned"

PipelineOk == <<"resolveSubscribers", "resolvePublication", "dispatch", "respond">>
PipelineSubscribersFail == <<"resolveSubscribers", "subscribersError", "respond">>
PipelinePublicationFail ==
  <<"resolveSubscribers", "resolvePublication", "publicationError", "respond">>

\* C10: the steps of a request run in the order resolve subscribers, resolve
\* publication, dispatch, respond; a batch is submitted only after both
\* resolvers succeeded; a request one of whose resolvers failed submits no
\* batch and is answered 500.
C10_PipelineOrder ==
  \A r \in Requests :
    /\ \/ IsPrefix(trace[r], PipelineOk)
       \/ trace[r] = PipelineSubscribersFail
       \/ trace[r] = PipelinePublicationFail
    /\ (submitted[r] # <<>> \/ hpc[r] \in {"dispatch", "sent"}) =>
         /\ ~ResolverFailed(r)
         /\ IsPrefix(<<"resolveSubscribers", "resolvePublication">>, trace[r])
    /\ ResolverFailed(r) =>
         /\ submitted[r] = <<>>
         /\ batchState[r] = <<>>
         /\ hpc[r] = "responded"
         /\ status[r] = 500

\* The publication resolver failed for a post that has subscribers.
C10_Witness ==
  \E r \in Requests :
    /\ trace[r] = PipelinePublicationFail
    /\ usersToEmail[r] # <<>>
    /\ status[r] = 500


\* A resolver invocation of request r is in progress.
InResolver(r) ==
  hpc[r] \in {"emails.connect", "emails.query", "newsletter.connect", "newsletter.query"}

\* C11: when the publication lookup returns zero rows, the publication
\* resolver fails with the NotFoundError outcome, not through an unchecked
\* access into the empty result, and no dispatch is attempted.
C11_EmptyLookupIsNotFound ==
  \A r \in Requests :
    (rowsReturned[r] /\ db.newsletters = 0) =>
      /\ caught[r] = "NotFoundError"
      /\ ~Dispatched(r)

\* C12: once every resolver invocation has returned or thrown, no
\* connection opened by a resolver is still open.
C12_NoConnectionLeftOpen ==
  (\A r \in Requests : ~InResolver(r)) => openConnections = 0


\* The per-recipient results the provider has delivered for request r so
\* far, batch by batch in submission order.
RECURSIVE ResultsFrom(_, _)
ResultsFrom(r, b) ==
  IF b > Len(submitted[r]) THEN <<>>
  ELSE (IF responses[r][b] = <<>> THEN <<>>
        ELSE Response(submitted[r][b], responses[r][b][1].bad, responses[r][b][1].kind))
       \o ResultsFrom(r, b + 1)

Results(r) == ResultsFrom(r, 1)

\* A per-recipient result that reports success: error code 0 and the
\* accepted message status.
IsSuccess(result) == result.ErrorCode = 0 /\ result.Message = "OK"

NotSuccess(result) == ~IsSuccess(result)

\* The number of times address a occurs in the list s of addresses.
Occurrences(s, a) == Cardinality({i \in DOMAIN s : s[i] = a})

\* The lists s and t hold the same addresses the same number of times.
SameAddresses(s, t) ==
  \A a \in {s[i] : i \in DOMAIN s} \cup {t[i] : i \in DOMAIN t} :
    Occurrences(s, a) = Occurrences(t, a)

\* The addresses of the results of request r that do not report success.
NotSuccessTos(r) ==
  LET failures == SelectSeq(Results(r), NotSuccess)
  IN [j \in 1 .. Len(failures) |-> failures[j].To]

\* C13: the failure list of a send() call holds the address of a recipient
\* exactly when the result delivered for that recipient is not a success
\* (nonzero error code, or a message status other than the accepted one),
\* once per such result; the address of a success result is never pushed.
C13_ListedIffNotSuccess ==
  \A r \in Requests : SameAddresses(failedEmails[r], NotSuccessTos(r))

\* A full first batch was answered with a zero error code and a message
\* status that is not the accepted one for its first recipient, and a later
\* batch was accepted whole.
C13_Witness ==
  \E r \in Requests :
    /\ Len(submitted[r]) > 1
    /\ responses[r][1] # <<>>
    /\ responses[r][1][1].bad # {}
    /\ responses[r][1][1].kind.ErrorCode = 0
    /\ responses[r][2] # <<>>
    /\ responses[r][2][1].bad = {}
    /\ failedEmails[r] = <<submitted[r][1][1]>>


\* C14: every address in the failure list of a send() call is the address
\* of an input recipient, no more often than the input holds it, and if
\* every result delivered reports success the list is empty.
C14_FailuresAmongRecipients ==
  \A r \in Requests :
    /\ \A i \in DOMAIN failedEmails[r] :
         /\ Occurrences(usersToEmail[r], failedEmails[r][i]) > 0
         /\ Occurrences(failedEmails[r], failedEmails[r][i])
              <= Occurrences(usersToEmail[r], failedEmails[r][i])
    /\ LET results == Results(r)
       IN (\A i \in DOMAIN results : IsSuccess(results[i])) => failedEmails[r] = <<>>

\* Every batch of the largest recipient list was answered, and two
\* recipients that share an address were both reported as not accepted.
C14_Witness ==
  \E r \in Requests :
    /\ Len(usersToEmail[r]) = MaxRecipients
    /\ \A b \in DOMAIN batchState[r] : batchState[r][b] = "resolved"
    /\ \E i, j \in DOMAIN failedEmails[r] :
         i # j /\ failedEmails[r][i] = failedEmails[r][j]


\* Step e is in the trace of request r.
Did(r, e) == \E i \in DOMAIN trace[r] : trace[r][i] = e

\* C15: for a post with zero subscribers, the subscriber resolver returns
\* an empty list without error; send() is called with zero recipients,
\* submits no batch and returns an empty failure list; the request is
\* answered 200.
C15_ZeroSubscribersSucceed ==
  \A r \in Requests :
    db.members = 0 =>
      /\ Did(r, "resolvePublication") =>
           usersToEmail[r] = <<>> /\ ~Did(r, "subscribersError")
      /\ Dispatched(r) =>
           /\ usersToEmail[r] = <<>>
           /\ submitted[r] = <<>>
           /\ failedEmails[r] = <<>>
           /\ hpc[r] = "responded" => (status[r] = 200 /\ trace[r] = PipelineOk)

\* A request for a post with zero subscribers was answered.
C15_Witness ==
  \E r \in Requests :
    /\ db.members = 0
    /\ Dispatched(r)
    /\ hpc[r] = "responded"
    /\ status[r] = 200


\* The number of times step e is in the trace of request r.
Times(r, e) == Cardinality({i \in DOMAIN trace[r] : trace[r][i] = e})

\* C16: nothing is retried within a request: each resolver is invoked at
\* most once and calls getConnection() at most once, send() is called at
\* most once and submits each batch once, and the retry loop of
\* attemptToConnectMySql runs at startup only: it has returned before a
\* request is handled and no other invocation of it exists.
C16_NoRetryWithinRequest ==
  /\ \A r \in Requests :
       /\ Times(r, "resolveSubscribers") <= 1
       /\ Times(r, "resolvePublication") <= 1
       /\ Times(r, "dispatch") <= 1
       /\ getConnectionCalls[r]
            = Times(r, "resolveSubscribers") + Times(r, "resolvePublication")
       /\ Len(submitted[r]) <= BatchesNeeded(Len(usersToEmail[r]))
       /\ \A b \in DOMAIN responses[r] : Len(responses[r][b]) <= 1
       /\ hpc[r] # "idle" => Startup.pc = "returned"
  /\ \A k \in Invocations \ {SetupInvocation} : conn[k] = NoInvocation

\* The startup connect needed retries; a request was then answered 500
\* because its publication resolver failed with a database error, after
\* one getConnection() call of each resolver.
C16_Witness ==
  \E r \in Requests :
    /\ Startup.sleeps # <<>>
    /\ hpc[r] = "responded"
    /\ caught[r] = "MysqlError"
    /\ getConnectionCalls[r] = 2


\* The delay of the retry formula for a given exponent.
FormulaDelay(attempt) == Min(maxDelayMillis, minDelayMillis * Pow2(attempt))

\* C17 as stated: every delay slept by the startup connect follows
\* min(maxDelay, minDelay * 2^attempt), lies between 1 s and 60 s, and the
\* delay before the first retry is minDelay, 1 s.
C17_FirstDelayIsMinDelay ==
  /\ \A i \in DOMAIN Startup.sleeps :
       /\ \E attempt \in 0 .. MAX_CXN_RETRIES : Startup.sleeps[i] = FormulaDelay(attempt)
       /\ minDelayMillis <= Startup.sleeps[i]
       /\ Startup.sleeps[i] <= maxDelayMillis
  /\ Startup.sleeps # <<>> => Startup.sleeps[1] = minDelayMillis

\* C17 as amended: the delay slept after the i-th failed attempt of the
\* startup connect is min(maxDelay, minDelay * 2^i), the exponent being the
\* number of attempts made so far; it lies between 2 s and 60 s, and the
\* delay before the first retry is 2 s.
C17_DelayFollowsAttemptsMade ==
  /\ \A i \in DOMAIN Startup.sleeps :
       /\ Startup.sleeps[i] = FormulaDelay(i)
       /\ 2 * minDelayMillis <= Startup.sleeps[i]
       /\ Startup.sleeps[i] <= maxDelayMillis
  /\ Startup.sleeps # <<>> => Startup.sleeps[1] = 2 * minDelayMillis

\* The startup connect sleeps its last delay, the one the cap applies to.
C17_Witness ==
  /\ Startup.pc = "sleeping"
  /\ Len(Startup.sleeps) = MAX_CXN_RETRIES
  /\ Startup.sleeps[MAX_CXN_RETRIES] = maxDelayMillis


\* The step is one of request r: its handler moved or one of its batch
\* promises settled.
StepOf(r) == hpc'[r] # hpc[r] \/ batchState'[r] # batchState[r]

\* The status the handler of request r sends, from what happened to r
\* itself up to the return of its own send() call.
OwnStatus(r) == IF ResolverFailed(r) THEN 500 ELSE 200

\* C18: requests handled concurrently share no dispatch state: the failure
\* list of a request holds one entry for each of its own results that is
\* not a success and nothing else, it changes only in steps of that
\* request, and the status a request is answered with is the one its own
\* pipeline determines.
C18_NoSharedDispatchState ==
  /\ [](\A r \in Requests :
         /\ Len(failedEmails[r]) = Len(NotSuccessTos(r))
         /\ \A i \in DOMAIN failedEmails[r] :
              \E j \in DOMAIN usersToEmail[r] : failedEmails[r][i] = usersToEmail[r][j]
         /\ hpc[r] = "responded" => status[r] = OwnStatus(r))
  /\ [][\A r \in Requests :
         (failedEmails'[r] # failedEmails[r] \/ status'[r] # status[r]) => StepOf(r)]_vars

\* Two requests were dispatched and answered; the provider then rejected a
\* recipient of one and accepted every recipient of the other.
C18_Witness ==
  \E r, q \in Requests :
    /\ r # q
    /\ hpc[r] = "responded" /\ hpc[q] = "responded"
    /\ submitted[r] # <<>> /\ submitted[q] # <<>>
    /\ responses[r][1] # <<>> /\ responses[q][1] # <<>>
    /\ failedEmails[r] # <<>>
    /\ failedEmails[q] = <<>>

\* C19: a request that reached the handler is answered exactly once, with
\* 200 or with 500: a status has been sent exactly when the handler has
\* finished, a status sent never changes, and a request received is
\* eventually answered unless the process ends while the request awaits a
\* resolver call, which then never completes.
C19_ExactlyOneResponse ==
  /\ [](\A r \in Requests :
         /\ Times(r, "respond") <= 1
         /\ (hpc[r] = "responded") = (Times(r, "respond") = 1)
         /\ (hpc[r] = "responded") = (status[r] \in {200, 500})
         /\ hpc[r] # "responded" => status[r] = 0)
  /\ [][\A r \in Requests : status[r] # 0 => status'[r] = status[r]]_vars
  /\ \A r \in Requests :
       (hpc[r] # "idle") ~> (hpc[r] = "responded" \/ (processExited /\ InResolver(r)))

\* Two requests were answered, one with 200 and one with 500.
C19_Witness ==
  \E r, q \in Requests :
    /\ hpc[r] = "responded" /\ status[r] = 200
    /\ hpc[q] = "responded" /\ status[q] = 500

====
